---- MODULE Spec2Model ----
(***************************************************************************)
(* Room control node of joachimhb/room-control-raspi: the status cache,    *)
(* the MQTT message handler and the automatic fan control of RoomControl.  *)
(*                                                                         *)
(* One room is modelled.  Time is the wall clock in milliseconds; it moves *)
(* in steps of one fan-evaluation period, so every clock step is followed  *)
(* by exactly one periodic evaluation.  Timestamps are positive; 0 stands  *)
(* for JavaScript's undefined/null where a timestamp is expected.          *)
(*                                                                         *)
(* Spec is the running node with its fan control; SpecEval and SpecHyst    *)
(* run updateFans over enumerated caches and reading sequences; SpecLive   *)
(* is the node under fan commands with timers and promises that settle;    *)
(* SpecTune, SpecLoop and SpecRace are the node under tunable messages,    *)
(* under its own speed publishes alone, and under changing readings;       *)
(* SpecRouter is handleMqttMessage over arbitrary topics and payloads;     *)
(* SpecBoot is the startup sequence of the entry file.                     *)
(***************************************************************************)
EXTENDS Integers, Sequences, FiniteSets, TLC

\* ------------------------------------------------------------------ bounds
\* number of clock steps (evaluation periods) a behaviour may take
MaxSteps == 2
\* evaluations that may be suspended in `await mqttClient.publish` at once
MaxSuspended == 1
\* published fan speeds on their way back to this node's message handler
MaxBroker == 2
\* fan messages whose one-second settle delay has not yet expired
MaxDelays == 1

\* ------------------------------------------------- constants of the program
\* setInterval(..., 10000): period of the fan evaluation in milliseconds
TickPeriod == 10000

\* ------------------------------------------------------------ configuration
\* fan ids a room configuration may hold, in room.fans order
AllFans == <<"f1", "f2">>
FanSet == {AllFans[i] : i \in 1..Len(AllFans)}
\* light ids of the room
LightIds == {"l1", "l2"}
\* room.mainHumidity.id
MainHumidity == "h1"
Speeds == {"off", "min", "max"}
FanAttrs == {"control", "speed", "minHumidityThreshold", "maxHumidityThreshold",
             "minRunTime", "lightTimeout", "trailingTime"}
NumAttrs == FanAttrs \ {"control", "speed"}

\* the static fan descriptors of the room configuration (seconds, percent)
FanConfig(f) ==
  [minHumidityThreshold |-> 50, maxHumidityThreshold |-> 70,
   minRunTime |-> 10, lightTimeout |-> 10, trailingTime |-> 10,
   triggerLights |-> IF f = "f1" THEN <<"l1", "l2">> ELSE <<"l2">>]

\* -------------------------------------------------------------------- state
VARIABLES
  now,           \* wall clock, ms
  room,          \* room.fans: the configured fans, in order
  status,        \* status[roomId]: element -> id -> subArea -> payload
  fansTrailing,  \* RoomControl.fansTrailing
  fanDriver,     \* last method called on each Fan driver ("none" before any)
  evals,         \* updateFans invocations suspended in await publish, with
                 \* the locals they resume with
  broker,        \* published speeds not yet delivered back to the handler
  delays,        \* fan messages waiting in delay(1000): [fresh, old] counts
  script,        \* scenario runs: readings to feed, speeds decided so far
  out,           \* the fan iterations the last step ran, in order
  cache,         \* the whole object `status` of room-control.js, as a tree
  routed,        \* the handler steps taken so far, each with what it did
  sleeping,      \* topics of the handler calls suspended in delay(1000)
  boot           \* startup: the configured tasks and the transport calls made

fanVars == <<now, room, status, fansTrailing, fanDriver, evals, broker,
             delays, script, out>>
routerVars == <<cache, routed, sleeping, boot>>
vars == <<now, room, status, fansTrailing, fanDriver, evals, broker,
          delays, script, out, cache, routed, sleeping, boot>>

\* ------------------------------------------------------------ status cache
\* a cache slot: the payload last stored by _.set, or nothing
NoStr == [set |-> FALSE, value |-> "", since |-> 0]
NoNum == [set |-> FALSE, value |-> 0, since |-> 0]
Data(v, s) == [set |-> TRUE, value |-> v, since |-> s]

EmptyStatus ==
  [fan |-> [f \in FanSet |->
              [a \in FanAttrs |-> IF a \in NumAttrs THEN NoNum ELSE NoStr]],
   humidity |-> [h \in {MainHumidity} |-> [a \in {"status"} |-> NoNum]],
   light |-> [l \in LightIds |-> [a \in {"status"} |-> NoStr]]]

\* mutant: the tunables of a fan are taken from its configuration alone
GetValueStatic(st, element, id, subArea, default) ==
  IF subArea \notin NumAttrs /\ st[element][id][subArea].set
  THEN st[element][id][subArea].value ELSE default

\* _.get(status, [element, id, subArea, 'value'], default)
GetValue(st, element, id, subArea, default) ==
  IF st[element][id][subArea].set THEN st[element][id][subArea].value ELSE default

\* _.get(status, [element, id, subArea, 'since'], default)
GetSince(st, element, id, subArea, default) ==
  IF st[element][id][subArea].set /\ st[element][id][subArea].since # 0
  THEN st[element][id][subArea].since ELSE default

\* _.set(status, finalPath, data)
SetStatus(st, element, id, subArea, data) ==
  [st EXCEPT ![element][id][subArea] = data]

\* ------------------------------------------------- RoomControl.updateFans
\* millisecond(`${n}s`)
Millisecond(n) == n * 1000

\* moment().diff(since, 'millisecond') at wall clock t
Diff(t, since) == t - since

\* a < b in JavaScript where either side may be undefined (0 here)
JsLess(a, b) == a # 0 /\ b # 0 /\ a < b

\* mutant: the control mode compared with a misspelt literal
IsManualTypo(control) == control = "Manual"

\* if(control === 'manual')
IsManual(control) == control = "manual"

\* mutant: the run time compared in seconds with an elapsed time in milliseconds
KeepRunningNoUnit(speed, t, speedSince, minRunTime) ==
  speed # "off" /\ Diff(t, speedSince) < minRunTime

\* if(speed !== 'off' && moment().diff(speedSince) < millisecond(`${minRunTime}s`))
KeepRunning(speed, t, speedSince, minRunTime) ==
  speed # "off" /\ Diff(t, speedSince) < Millisecond(minRunTime)

\* mutant: no drop-out band, the speed follows the two thresholds alone
HumiditySpeedNoBand(speed, hum, minHumidityThreshold, maxHumidityThreshold) ==
  IF hum.set /\ hum.value # 0
  THEN IF hum.value > maxHumidityThreshold THEN "max"
       ELSE IF hum.value > minHumidityThreshold THEN "min"
       ELSE "off"
  ELSE "off"

\* let newSpeed = 'off'; if(humidity) {...}: hum is the cached humidity slot
HumiditySpeed(speed, hum, minHumidityThreshold, maxHumidityThreshold) ==
  LET humidity == hum.value
      downToMinThreshold == minHumidityThreshold - 5
      downToMaxThreshold == maxHumidityThreshold - 10
  IN IF hum.set /\ humidity # 0
     THEN IF humidity > maxHumidityThreshold THEN "max"
          ELSE IF speed = "max" /\ humidity > downToMaxThreshold THEN "max"
          ELSE IF humidity > minHumidityThreshold THEN "min"
          ELSE IF speed = "min" /\ humidity > downToMinThreshold THEN "min"
          ELSE "off"
     ELSE "off"

\* for(const lightId of fan.triggerLights || []) {...}
RECURSIVE LightScan(_, _, _, _)
LightScan(st, lights, i, acc) ==
  IF i > Len(lights) THEN acc
  ELSE LET lightValue == GetValue(st, "light", lights[i], "status", "")
           since == GetSince(st, "light", lights[i], "status", 0)
       IN IF lightValue = "on"
          THEN LightScan(st, lights, i + 1,
                 [acc EXCEPT !.minLightOnSince =
                                IF @ = 0 \/ JsLess(since, @) THEN since ELSE @,
                             !.anyLightOn = TRUE])
          ELSE IF acc.maxLightOffSince = 0 \/ JsLess(acc.maxLightOffSince, since)
          THEN LightScan(st, lights, i + 1, [acc EXCEPT !.maxLightOffSince = since])
          ELSE LightScan(st, lights, i + 1, acc)

Lights(st, f) ==
  LightScan(st, FanConfig(f).triggerLights, 1,
            [minLightOnSince |-> 0, maxLightOffSince |-> 0, anyLightOn |-> FALSE])

\* mutant: the light timeout compared with >= instead of >
TrailingSetGe(trailing, scan, t, lightTimeout) ==
  IF scan.anyLightOn /\ scan.minLightOnSince # 0
     /\ Diff(t, scan.minLightOnSince) >= Millisecond(lightTimeout)
  THEN TRUE ELSE trailing

\* if(anyLightOn && minLightOnSince) {... fansTrailing[fan.id] = true}
TrailingSet(trailing, scan, t, lightTimeout) ==
  IF scan.anyLightOn /\ scan.minLightOnSince # 0
     /\ Diff(t, scan.minLightOnSince) > Millisecond(lightTimeout)
  THEN TRUE ELSE trailing

\* mutant: the flag cleared without looking whether a light is still on
TrailingClearAnyLight(trailing, scan, t, trailingTime) ==
  IF trailing /\ scan.maxLightOffSince # 0
     /\ Diff(t, scan.maxLightOffSince) > Millisecond(trailingTime)
  THEN FALSE ELSE trailing

\* if(!anyLightOn && fansTrailing[fan.id] && maxLightOffSince) {... = false}
TrailingClear(trailing, scan, t, trailingTime) ==
  IF ~scan.anyLightOn /\ trailing /\ scan.maxLightOffSince # 0
     /\ Diff(t, scan.maxLightOffSince) > Millisecond(trailingTime)
  THEN FALSE ELSE trailing

\* mutant: the trailing flag does not touch the speed
TrailingSpeedIgnored(trailing, newSpeed) == newSpeed

\* mutant: the trailing flag only raises 'off', it leaves 'max'
TrailingSpeedRaiseOnly(trailing, newSpeed) ==
  IF trailing /\ newSpeed = "off" THEN "min" ELSE newSpeed

\* if(fansTrailing[fan.id]) {newSpeed = 'min'}
TrailingSpeed(trailing, newSpeed) == IF trailing THEN "min" ELSE newSpeed

\* mutant: every evaluation that decides a speed publishes it
ShouldPublishAlways(speed, newSpeed) == TRUE

\* if(speed !== newSpeed) {await mqttClient.publish(...)}
ShouldPublish(speed, newSpeed) == speed # newSpeed

\* mutant: the `keep running` branch calls the driver like the manual branch
KeepCallSpeed(speed) == speed

\* the driver method called by the `keep running` branch: none
KeepCall(speed) == "none"

\* one iteration of the loop over room.fans, for fan f reading st at time t:
\* the branch taken, the speed read and the speed decided, the trailing flag
\* before (was) and after, whether a publish is due, the driver method to call
EvalFan(st, trailing, f, t) ==
  LET cfg == FanConfig(f)
      hum == st.humidity[MainHumidity].status
      minHumidityThreshold ==
        GetValue(st, "fan", f, "minHumidityThreshold", cfg.minHumidityThreshold)
      maxHumidityThreshold ==
        GetValue(st, "fan", f, "maxHumidityThreshold", cfg.maxHumidityThreshold)
      minRunTime == GetValue(st, "fan", f, "minRunTime", cfg.minRunTime)
      lightTimeout == GetValue(st, "fan", f, "lightTimeout", cfg.lightTimeout)
      trailingTime == GetValue(st, "fan", f, "trailingTime", cfg.trailingTime)
      control == GetValue(st, "fan", f, "control", "manual")
      speed == GetValue(st, "fan", f, "speed", "off")
      speedSince == GetSince(st, "fan", f, "speed", t)
      scan == Lights(st, f)
      trailing1 == TrailingSet(trailing, scan, t, lightTimeout)
      trailing2 == TrailingClear(trailing1, scan, t, trailingTime)
      newSpeed == TrailingSpeed(trailing2,
                    HumiditySpeed(speed, hum, minHumidityThreshold,
                                  maxHumidityThreshold))
  IN IF IsManual(control)
     THEN [fan |-> f, branch |-> "manual", speed |-> speed, newSpeed |-> speed,
           was |-> trailing, trailing |-> trailing, publish |-> FALSE,
           call |-> speed]
     ELSE IF KeepRunning(speed, t, speedSince, minRunTime)
     THEN [fan |-> f, branch |-> "keep", speed |-> speed, newSpeed |-> speed,
           was |-> trailing, trailing |-> trailing, publish |-> FALSE,
           call |-> KeepCall(speed)]
     ELSE [fan |-> f, branch |-> "auto", speed |-> speed, newSpeed |-> newSpeed,
           was |-> trailing, trailing |-> trailing2,
           publish |-> ShouldPublish(speed, newSpeed), call |-> newSpeed]

\* this.fans[fan.id][speed]()
CallDriver(driver, f, method) ==
  IF method = "none" THEN driver ELSE [driver EXCEPT ![f] = method]

\* the loop over room.fans from index i up to its next await, or to its end;
\* s = [trailing, driver, log]; the result adds susp, the index of the fan
\* whose publish is awaited (0 when the loop ran to its end); the driver call
\* of that fan waits for the publish
RECURSIVE RunFans(_, _, _, _, _)
RunFans(fans, st, t, i, s) ==
  IF i > Len(fans)
  THEN [trailing |-> s.trailing, driver |-> s.driver, log |-> s.log,
        susp |-> 0, speed |-> "off", newSpeed |-> "off"]
  ELSE LET f == fans[i]
           r == EvalFan(st, s.trailing[f], f, t)
           tr == [s.trailing EXCEPT ![f] = r.trailing]
       IN IF r.publish
          THEN [trailing |-> tr, driver |-> s.driver,
                log |-> Append(s.log, [r EXCEPT !.call = "none"]),
                susp |-> i, speed |-> r.speed, newSpeed |-> r.newSpeed]
          ELSE RunFans(fans, st, t, i + 1,
                 [trailing |-> tr, driver |-> CallDriver(s.driver, f, r.call),
                  log |-> Append(s.log, r)])

\* ------------------------------------------------------------------ actions
\* `out` after a step that evaluates no fan
NoOut == <<>>

\* what a run r of the fan loop leaves behind, the other suspended evaluations
\* being others.  A publish is handed to the transport, which either takes it
\* (it will resolve, and the message comes back through the subscription) or
\* does not (it will reject).
Commit(r, others) ==
  /\ fansTrailing' = r.trailing
  /\ fanDriver' = r.driver
  /\ out' = r.log
  /\ IF r.susp = 0
     THEN /\ evals' = others
          /\ UNCHANGED broker
     ELSE /\ Len(others) < MaxSuspended
          /\ \E fails \in BOOLEAN :
               /\ evals' = Append(others, [idx |-> r.susp, speed |-> r.speed,
                                           newSpeed |-> r.newSpeed, fails |-> fails])
               /\ IF fails THEN UNCHANGED broker
                  ELSE /\ Len(broker) < MaxBroker
                       /\ broker' = Append(broker,
                            [fan |-> room[r.susp], value |-> r.newSpeed])

\* async updateFans() from its start: runs to its first await publish or to
\* its end
UpdateFans ==
  Commit(RunFans(room, status, now, 1,
                 [trailing |-> fansTrailing, driver |-> fanDriver, log |-> <<>>]),
         evals)

\* RoomControl.fan()
Fan ==
  /\ UpdateFans
  /\ UNCHANGED <<now, room, status, script>>
  /\ UNCHANGED routerVars

\* setInterval(() => {this.updateFans();}, 10000): the wall clock has passed one
\* more period (every delay(1000) begun a period ago has expired) and the
\* interval callback runs
Tick ==
  /\ now < TickPeriod * (MaxSteps + 1)
  /\ delays.old = 0
  /\ now' = now + TickPeriod
  /\ delays' = [fresh |-> 0, old |-> delays.fresh]
  /\ LET r == RunFans(room, status, now', 1,
                [trailing |-> fansTrailing, driver |-> fanDriver, log |-> <<>>])
     IN Commit(r, evals)
  /\ UNCHANGED <<room, status, script>>
  /\ UNCHANGED routerVars

\* handleMqttMessage(topic, data) for topic room/<roomId>/<element>/<id>/<subArea>
\* up to its await delay(1000), or to its end for elements other than fan
HandleMqttMessage(element, id, subArea, data) ==
  /\ status' = SetStatus(status, element, id, subArea, data)
  /\ IF element = "fan"
     THEN /\ delays.fresh + delays.old < MaxDelays
          /\ delays' = [delays EXCEPT !.fresh = @ + 1]
     ELSE UNCHANGED delays
  /\ out' = NoOut
  /\ UNCHANGED routerVars

\* handleMqttMessage after await delay(1000): roomControls[areaId].fan(...)
DelayDone ==
  /\ delays.fresh + delays.old > 0
  /\ delays' = IF delays.old > 0 THEN [delays EXCEPT !.old = @ - 1]
               ELSE [delays EXCEPT !.fresh = @ - 1]
  /\ Fan

RemoveAt(q, k) == [j \in 1..(Len(q) - 1) |-> IF j < k THEN q[j] ELSE q[j + 1]]

\* await mqttClient.publish(...) resolves: this.fans[fan.id][newSpeed]() and the
\* rest of the loop, to its next await or to its end
PublishResolve(k) ==
  /\ ~evals[k].fails
  /\ LET e == evals[k]
         f == room[e.idx]
         r == RunFans(room, status, now, e.idx + 1,
                [trailing |-> fansTrailing,
                 driver |-> CallDriver(fanDriver, f, e.newSpeed),
                 log |-> <<[fan |-> f, branch |-> "resume", speed |-> e.speed,
                            newSpeed |-> e.newSpeed, was |-> fansTrailing[f],
                            trailing |-> fansTrailing[f], publish |-> FALSE,
                            call |-> e.newSpeed]>>])
     IN Commit(r, RemoveAt(evals, k))
  /\ UNCHANGED <<now, room, status, delays, script>>
  /\ UNCHANGED routerVars

\* await mqttClient.publish(...) rejects: updateFans ends with the exception
PublishReject(k) ==
  /\ evals[k].fails
  /\ evals' = RemoveAt(evals, k)
  /\ out' = NoOut
  /\ UNCHANGED <<now, room, status, fansTrailing, fanDriver, broker,
                 delays, script>>
  /\ UNCHANGED routerVars

\* timestamps a payload may carry at time t (0: none)
Stamps(t) == {t}

\* the node's own fan speed publish comes back through its subscription
Deliver ==
  /\ broker # <<>>
  /\ \E s \in Stamps(now) :
       HandleMqttMessage("fan", Head(broker).fan, "speed",
                         Data(Head(broker).value, s))
  /\ broker' = Tail(broker)
  /\ UNCHANGED <<now, room, fansTrailing, fanDriver, evals, script>>

\* messages other nodes and the user interface publish to this room's topics;
\* a payload's `since` is kept only where updateFans reads it
Inbound(t) ==
  {[element |-> "fan", id |-> room[1], subArea |-> "control", data |-> Data(c, 0)] :
     c \in {"manual", "auto"}}
  \cup
  {[element |-> "fan", id |-> room[1], subArea |-> "speed", data |-> Data("off", t)],
   [element |-> "humidity", id |-> MainHumidity, subArea |-> "status",
    data |-> Data(75, 0)]}
  \cup
  {[element |-> "light", id |-> "l1", subArea |-> "status", data |-> Data(v, t)] :
     v \in {"on", "off"}}

Receive ==
  /\ \E m \in Inbound(now) : HandleMqttMessage(m.element, m.id, m.subArea, m.data)
  /\ UNCHANGED <<now, room, fansTrailing, fanDriver, evals, broker, script>>

\* nothing routed and nothing started: the router and the startup are modelled
\* in specifications of their own
RouterIdle ==
  /\ cache = [t |-> "object", kids |-> << >>]
  /\ routed = <<>>
  /\ sleeping = <<>>
  /\ boot = [tasks |-> {}, pc |-> "idle", calls |-> <<>>]

NoScript == [readings |-> <<>>, todo |-> <<>>, speeds |-> <<>>, phase |-> "none"]

Init ==
  /\ now = TickPeriod
  /\ room = <<"f1">>
  /\ status = EmptyStatus
  /\ fansTrailing = [f \in FanSet |-> FALSE]
  /\ fanDriver = [f \in FanSet |-> "none"]
  /\ evals = <<>>
  /\ broker = <<>>
  /\ delays = [fresh |-> 0, old |-> 0]
  /\ script = NoScript
  /\ out = NoOut
  /\ RouterIdle

Next ==
  \/ Tick
  \/ Receive
  \/ DelayDone
  \/ Deliver
  \/ \E k \in 1..Len(evals) : PublishResolve(k)
  \/ \E k \in 1..Len(evals) : PublishReject(k)

Spec == Init /\ [][Next]_vars

\* ----------------------------------------------- evaluations of a given cache
\* The handler stores whatever payload arrives, so every combination of cache
\* slots below is left behind by some sequence of messages; the trailing flag
\* is whatever earlier evaluations left.  SpecEval starts from such a cache
\* and runs updateFans on it.
EvalTime == 4 * TickPeriod

StatusOf(fan1, fan2, hum, l1, l2) ==
  [fan |-> [f \in FanSet |->
              [a \in FanAttrs |->
                 LET given == IF f = "f1" THEN fan1 ELSE fan2
                 IN IF a \in DOMAIN given THEN given[a]
                    ELSE IF a \in NumAttrs THEN NoNum ELSE NoStr]],
   humidity |-> [h \in {MainHumidity} |-> [a \in {"status"} |-> hum]],
   light |-> [l \in LightIds |-> [a \in {"status"} |-> IF l = "l1" THEN l1 ELSE l2]]]

ControlSlots == {NoStr, Data("manual", 0), Data("auto", 0)}
SpeedSlots ==
  {NoStr} \cup {Data(v, s) : v \in Speeds, s \in {0, EvalTime - TickPeriod, EvalTime}}
HumiditySlots == {NoNum} \cup {Data(h, 0) : h \in {0, 45, 46, 50, 51, 60, 61, 70, 71}}
LightSlots ==
  {NoStr} \cup {Data(v, s) : v \in {"on", "off"},
                             s \in {0, EvalTime - 2 * TickPeriod, EvalTime - TickPeriod}}

\* caches that vary what the humidity decision reads
HumidityCaches ==
  {StatusOf([control |-> c, speed |-> sp, minRunTime |-> rt,
             minHumidityThreshold |-> mn, maxHumidityThreshold |-> mx],
            << >>, hum, l1, NoStr) :
     c \in ControlSlots, sp \in SpeedSlots, rt \in {NoNum, Data(0, 0), Data(20, 0)},
     mn \in {NoNum, Data(3, 0)}, mx \in {NoNum, Data(55, 0)},
     hum \in HumiditySlots, l1 \in {NoStr, Data("on", EvalTime - 2 * TickPeriod)}}

\* caches that vary what the trailing latch reads
LightCaches ==
  {StatusOf([control |-> Data("auto", 0), speed |-> sp, minRunTime |-> Data(0, 0),
             lightTimeout |-> lt, trailingTime |-> tt],
            << >>, hum, l1, l2) :
     sp \in {NoStr, Data("max", EvalTime - TickPeriod)},
     lt \in {NoNum, Data(20, 0)}, tt \in {NoNum, Data(0, 0)},
     hum \in {NoNum, Data(71, 0)}, l1 \in LightSlots, l2 \in LightSlots}

\* caches of a room with two fans
TwoFanCaches ==
  {StatusOf([control |-> c1, speed |-> sp1, minRunTime |-> Data(0, 0)],
            [control |-> c2, speed |-> sp2],
            hum, NoStr, l2) :
     c1 \in {Data("manual", 0), Data("auto", 0)},
     sp1 \in {NoStr, Data("max", EvalTime - TickPeriod)},
     c2 \in {NoStr, Data("auto", 0)},
     sp2 \in {NoStr, Data("min", EvalTime - TickPeriod)},
     hum \in {NoNum, Data(51, 0), Data(71, 0)},
     l2 \in {NoStr, Data("on", EvalTime - 2 * TickPeriod),
             Data("off", EvalTime - 2 * TickPeriod)}}

InitEval ==
  /\ now = EvalTime
  /\ \/ /\ room = <<"f1">>
        /\ status \in HumidityCaches \cup LightCaches
        /\ fansTrailing \in {[f \in FanSet |-> f = "f1" /\ b] : b \in BOOLEAN}
     \/ /\ room = <<"f1", "f2">>
        /\ status \in TwoFanCaches
        /\ fansTrailing \in [FanSet -> BOOLEAN]
  /\ fanDriver = [f \in FanSet |-> "none"]
  /\ evals = <<>>
  /\ broker = <<>>
  /\ delays = [fresh |-> 0, old |-> 0]
  /\ script = NoScript
  /\ out = NoOut
  /\ RouterIdle

\* RoomControl.fan() called on the cache as it stands
FanNow ==
  /\ Fan
  /\ UNCHANGED delays

NextEval ==
  \/ FanNow
  \/ \E k \in 1..Len(evals) : PublishResolve(k)
  \/ \E k \in 1..Len(evals) : PublishReject(k)

SpecEval == InitEval /\ [][NextEval]_vars

\* ------------------------------------------------ a run of humidity readings
\* Fan f1 in auto control with minRunTime 0 and the configured thresholds
\* 50/70, no light ever reported.  Each reading is stored, evaluated once,
\* and the published speed, if any, is written back before the next reading.
Readings == [1..5 -> {40, 45, 55, 65, 75}]

InitHyst ==
  /\ now = TickPeriod
  /\ room = <<"f1">>
  /\ status = StatusOf([control |-> Data("auto", 0), minRunTime |-> Data(0, 0)],
                       << >>, NoNum, NoStr, NoStr)
  /\ fansTrailing = [f \in FanSet |-> FALSE]
  /\ fanDriver = [f \in FanSet |-> "none"]
  /\ evals = <<>>
  /\ broker = <<>>
  /\ delays = [fresh |-> 0, old |-> 0]
  /\ script \in {[readings |-> r, todo |-> r, speeds |-> <<>>, phase |-> "settle"] :
                    r \in Readings}
  /\ out = NoOut
  /\ RouterIdle

Settled == evals = <<>> /\ broker = <<>> /\ delays.fresh + delays.old = 0

\* the humidity sensor's next status message arrives
ScriptFeed ==
  /\ script.phase = "settle"
  /\ Settled
  /\ script.todo # <<>>
  /\ HandleMqttMessage("humidity", MainHumidity, "status", Data(Head(script.todo), 0))
  /\ script' = [script EXCEPT !.todo = Tail(@), !.phase = "eval"]
  /\ UNCHANGED <<now, room, fansTrailing, fanDriver, evals, broker>>

\* the evaluation of the reading; its decision is noted
ScriptEval ==
  /\ script.phase = "eval"
  /\ UpdateFans
  /\ \A k \in 1..Len(evals') : ~evals'[k].fails
  /\ script' = [script EXCEPT !.speeds = Append(@, out'[1].newSpeed),
                              !.phase = "settle"]
  /\ UNCHANGED <<now, room, status, delays>>
  /\ UNCHANGED routerVars

ScriptSettle ==
  /\ script.phase = "settle"
  /\ \/ \E k \in 1..Len(evals) : PublishResolve(k)
     \/ Deliver
     \/ DelayDone

NextHyst == ScriptFeed \/ ScriptEval \/ ScriptSettle

SpecHyst == InitHyst /\ [][NextHyst]_vars

\* ------------------------------------------------------------------ claims
\* The cache as a reader of the claims sees it.
FreshIn(log) == {i \in 1..Len(log) : log[i].branch # "resume"}
CachedControl(f) ==
  IF status.fan[f].control.set THEN status.fan[f].control.value ELSE "manual"
CachedSpeed(f) ==
  IF status.fan[f].speed.set THEN status.fan[f].speed.value ELSE "off"
CachedSpeedSince(f) ==
  IF status.fan[f].speed.set /\ status.fan[f].speed.since # 0
  THEN status.fan[f].speed.since ELSE now
Tunable(f, a) ==
  IF status.fan[f][a].set THEN status.fan[f][a].value ELSE FanConfig(f)[a]
Reading == status.humidity[MainHumidity].status
TriggerSet(f) ==
  {FanConfig(f).triggerLights[i] : i \in 1..Len(FanConfig(f).triggerLights)}
LightOn(l) == status.light[l].status.set /\ status.light[l].status.value = "on"
SetMin(S) == CHOOSE x \in S : \A y \in S : x <= y
SetMax(S) == CHOOSE x \in S : \A y \in S : x >= y
OnStamps(f) ==
  {status.light[l].status.since : l \in {k \in TriggerSet(f) : LightOn(k)}} \ {0}
OffStamps(f) ==
  {status.light[l].status.since :
     l \in {k \in TriggerSet(f) : status.light[k].status.set /\ ~LightOn(k)}} \ {0}
MinRunOver(f) ==
  CachedSpeed(f) = "off"
  \/ now - CachedSpeedSince(f) >= Tunable(f, "minRunTime") * 1000

\* C1: an iteration for a fan whose cached control is 'manual' or absent calls
\* the driver method named by the cached speed ('off' when absent), publishes
\* nothing and leaves the trailing flag alone, whatever the humidity, the
\* lights and the trailing flag are.
C1_ManualCommandsCachedSpeed ==
  \A i \in FreshIn(out) :
    CachedControl(out[i].fan) = "manual" =>
      /\ out[i].call = CachedSpeed(out[i].fan)
      /\ fanDriver[out[i].fan] = CachedSpeed(out[i].fan)
      /\ ~out[i].publish
      /\ out[i].trailing = out[i].was

C1_Witness ==
  \E i \in FreshIn(out) :
    /\ CachedControl(out[i].fan) = "manual"
    /\ out[i].call = "min"
    /\ fansTrailing[out[i].fan]
    /\ Reading.set /\ Reading.value = 71
    /\ \E l \in TriggerSet(out[i].fan) : LightOn(l)

\* C2: in auto control, while the cached speed is not 'off' and less than
\* minRunTime seconds have passed since speedSince, an evaluation publishes
\* nothing for the fan and decides no other speed; a publish happens only for
\* a fan that is 'off' or has run for at least minRunTime seconds.
C2_MinRunTimeGuard ==
  \A i \in FreshIn(out) :
    /\ (CachedControl(out[i].fan) # "manual" /\ ~MinRunOver(out[i].fan)) =>
         (~out[i].publish /\ out[i].newSpeed = CachedSpeed(out[i].fan))
    /\ out[i].publish => MinRunOver(out[i].fan)

C2_Witness ==
  \E i \in FreshIn(out) :
    /\ CachedControl(out[i].fan) = "auto"
    /\ CachedSpeed(out[i].fan) = "min"
    /\ ~MinRunOver(out[i].fan)
    /\ Reading.set /\ Reading.value = 71
    /\ ~out[i].publish

\* The speed the humidity bands give, as the specification words them.
BandSpeed(speed, h, minT, maxT) ==
  IF h > maxT \/ (speed = "max" /\ h > maxT - 10) THEN "max"
  ELSE IF h > minT \/ (speed = "min" /\ h > minT - 5) THEN "min"
  ELSE "off"

PastGuardNoTrailing(i) ==
  /\ i \in FreshIn(out)
  /\ out[i].branch = "auto"
  /\ ~fansTrailing[out[i].fan]

\* C3 as claimed: past the guard and with the trailing flag false the decided
\* speed is the band speed for every reading, 0 included, and 'off' for an
\* absent reading.
C3_BandsForEveryReading ==
  \A i \in 1..Len(out) :
    PastGuardNoTrailing(i) =>
      out[i].newSpeed =
        IF Reading.set
        THEN BandSpeed(CachedSpeed(out[i].fan), Reading.value,
                       Tunable(out[i].fan, "minHumidityThreshold"),
                       Tunable(out[i].fan, "maxHumidityThreshold"))
        ELSE "off"

\* C3 for the readings the code does not take for absent: past the guard and
\* with the trailing flag false the decided speed is the band speed for every
\* reading other than 0, with strict comparisons, and 'off' for a reading that
\* is absent or 0.
C3_BandsForNonZeroReading ==
  \A i \in 1..Len(out) :
    PastGuardNoTrailing(i) =>
      out[i].newSpeed =
        IF Reading.set /\ Reading.value # 0
        THEN BandSpeed(CachedSpeed(out[i].fan), Reading.value,
                       Tunable(out[i].fan, "minHumidityThreshold"),
                       Tunable(out[i].fan, "maxHumidityThreshold"))
        ELSE "off"

\* the reading 0 under a cached speed 'min' and a minimum threshold below 5:
\* the bands give 'min', the evaluation decides 'off'
C3_Witness ==
  \E i \in 1..Len(out) :
    /\ PastGuardNoTrailing(i)
    /\ CachedSpeed(out[i].fan) = "min"
    /\ Reading.set /\ Reading.value = 0
    /\ BandSpeed("min", 0, Tunable(out[i].fan, "minHumidityThreshold"),
                 Tunable(out[i].fan, "maxHumidityThreshold")) = "min"
    /\ out[i].newSpeed = "off"

\* C4 as claimed: the readings 40, 55, 75, 65, 45 yield off, min, max, max, min.
C4_SequenceEndsMin ==
  (script.readings = <<40, 55, 75, 65, 45>> /\ Len(script.speeds) = 5) =>
    script.speeds = <<"off", "min", "max", "max", "min">>

\* C4 as amended: the readings 40, 55, 75, 65, 45 yield off, min, max, max, off.
C4_SequenceEndsOff ==
  script.readings = <<40, 55, 75, 65, 45>> =>
    \A n \in 1..Len(script.speeds) :
      script.speeds[n] = <<"off", "min", "max", "max", "off">>[n]

C4_Witness ==
  /\ script.readings = <<40, 55, 75, 65, 45>>
  /\ Len(script.speeds) = 5
  /\ Settled

\* C5: the trailing flag of a fan goes from false to true only in a step that
\* evaluates the fan while one of its trigger lights is on and the earliest
\* on-since of the lights that are on lies more than lightTimeout seconds back.
C5_TrailingSetOnlyAfterTimeout ==
  [][\A f \in FanSet :
       (~fansTrailing[f] /\ fansTrailing'[f]) =>
         /\ \E i \in FreshIn(out') : out'[i].fan = f /\ out'[i].branch = "auto"
         /\ OnStamps(f) # {}
         /\ now' - SetMin(OnStamps(f)) > Tunable(f, "lightTimeout") * 1000]_vars

C5_Witness ==
  \E i \in FreshIn(out) :
    /\ ~out[i].was
    /\ fansTrailing[out[i].fan]
    /\ Cardinality(OnStamps(out[i].fan)) = 2

\* C6: the trailing flag of a fan goes from true to false only in a step that
\* evaluates the fan while none of its trigger lights is on and the latest
\* off-since of its lights lies more than trailingTime seconds back.
C6_TrailingClearedOnlyAfterTrailingTime ==
  [][\A f \in FanSet :
       (fansTrailing[f] /\ ~fansTrailing'[f]) =>
         /\ \E i \in FreshIn(out') : out'[i].fan = f /\ out'[i].branch = "auto"
         /\ \A l \in TriggerSet(f) : ~LightOn(l)
         /\ OffStamps(f) # {}
         /\ now' - SetMax(OffStamps(f)) > Tunable(f, "trailingTime") * 1000]_vars

C6_Witness ==
  \E i \in FreshIn(out) :
    /\ out[i].was
    /\ ~fansTrailing[out[i].fan]
    /\ Cardinality(OffStamps(out[i].fan)) = 2

\* C7 as claimed: whenever the trailing flag of a fan is true, neither the
\* speed last commanded to its driver nor the speed cached for it is 'off'.
C7_NeverOffWhileTrailing ==
  \A i \in 1..Len(room) :
    fansTrailing[room[i]] =>
      (fanDriver[room[i]] # "off" /\ CachedSpeed(room[i]) # "off")

\* C7 as amended: an evaluation in auto control that leaves the trailing flag
\* of a fan true decides a speed other than 'off' for it, and that speed is
\* what it commands or, if the cache holds another speed, publishes.
C7_AutoNeverDecidesOffWhileTrailing ==
  \A i \in FreshIn(out) :
    (CachedControl(out[i].fan) # "manual" /\ fansTrailing[out[i].fan]) =>
      /\ out[i].newSpeed # "off"
      /\ out[i].call # "off"
      /\ out[i].publish => evals[Len(evals)].newSpeed # "off"

C7_Witness ==
  \E i \in FreshIn(out) :
    /\ out[i].branch = "auto"
    /\ fansTrailing[out[i].fan]
    /\ ~Reading.set
    /\ out[i].newSpeed = "min"

\* C8: in an evaluation in auto control that gets past the min-run-time guard
\* and whose light step leaves the trailing flag true, the decided speed is
\* 'min', whatever speed the humidity alone would give.
C8_TrailingForcesMin ==
  \A i \in FreshIn(out) :
    (out[i].branch = "auto" /\ fansTrailing[out[i].fan]) =>
      /\ out[i].newSpeed = "min"
      /\ out[i].publish = (CachedSpeed(out[i].fan) # "min")
      /\ out[i].call = IF out[i].publish THEN "none" ELSE "min"

C8_Witness ==
  \E i \in FreshIn(out) :
    /\ out[i].branch = "auto"
    /\ fansTrailing[out[i].fan]
    /\ Reading.set /\ Reading.value = 71
    /\ Tunable(out[i].fan, "maxHumidityThreshold") = 70
    /\ out[i].newSpeed = "min"

\* C9 as claimed: once an evaluation has published the change of a fan from
\* one speed to another, an evaluation that reads the same cache does not
\* publish that change again.
C9_NoSecondPublish ==
  [][status' = status =>
       \A i \in 1..Len(out), j \in FreshIn(out') :
         (out[i].branch = "resume" /\ out'[j].fan = out[i].fan
          /\ out'[j].speed = out[i].speed /\ out'[j].newSpeed = out[i].newSpeed)
           => ~out'[j].publish]_vars

\* C9, the first half: an evaluation publishes for a fan exactly when it
\* reaches the decision in auto control and the speed decided differs from the
\* speed the cache holds at that moment; reading a cache that holds the decided
\* speed it publishes nothing.
C9_PublishIffCacheDiffers ==
  \A i \in FreshIn(out) :
    out[i].publish = (out[i].branch = "auto"
                      /\ out[i].newSpeed # CachedSpeed(out[i].fan))

\* the change to 'max' is published a second time: the first publish has
\* resolved and the driver runs at 'max', its message has not come back yet
C9_Witness ==
  \E i \in FreshIn(out) :
    /\ out[i].publish
    /\ out[i].newSpeed = "max"
    /\ fanDriver[out[i].fan] = "max"
    /\ Len(broker) = 2
    /\ broker[1] = broker[2]

LiveCaches ==
  {IF hum THEN SetStatus(st, "humidity", MainHumidity, "status", Data(75, 0)) ELSE st :
     st \in {EmptyStatus,
             SetStatus(EmptyStatus, "fan", "f2", "control", Data("auto", 0))},
     hum \in BOOLEAN}

InitLive ==
  /\ now = TickPeriod
  /\ room \in {<<"f1">>, <<"f1", "f2">>, <<"f2", "f1">>}
  /\ status \in LiveCaches
  /\ fansTrailing = [f \in FanSet |-> FALSE]
  /\ fanDriver = [f \in FanSet |-> "none"]
  /\ evals = <<>>
  /\ broker = <<>>
  /\ delays = [fresh |-> 0, old |-> 0]
  /\ script = NoScript
  /\ out = NoOut
  /\ RouterIdle

FanCommands(t) ==
  {[subArea |-> "control", data |-> Data(c, 0)] : c \in {"manual", "auto"}}
  \cup
  {[subArea |-> "speed", data |-> Data(v, t)] : v \in {"off", "min"}}

Command ==
  /\ \E m \in FanCommands(now) : HandleMqttMessage("fan", "f1", m.subArea, m.data)
  /\ UNCHANGED <<now, room, fansTrailing, fanDriver, evals, broker, script>>

PublishSettles ==
  \E k \in 1..Len(evals) : PublishResolve(k) \/ PublishReject(k)

NextLive ==
  \/ Command
  \/ DelayDone
  \/ PublishSettles

SpecLive ==
  /\ InitLive
  /\ [][NextLive]_vars
  /\ WF_vars(DelayDone)
  /\ WF_vars(PublishSettles)

\* ------------------------------------------------ tunables set while running
\* Fan f1 in auto control, between two ticks of the interval.  Messages on
\* the fan's tunable topics arrive between the evaluations started by the
\* delayed calls of the messages and of the node's own speed coming back.
TuneValues(a) ==
  IF a = "minHumidityThreshold" THEN {65}
  ELSE IF a = "maxHumidityThreshold" THEN {55}
  ELSE IF a = "minRunTime" THEN {20}
  ELSE IF a = "lightTimeout" THEN {20}
  ELSE {0}

TuneCaches ==
  {StatusOf([control |-> Data("auto", 0), speed |-> sp], << >>, hum, l1, NoStr) :
     sp \in {NoStr, Data("min", EvalTime - TickPeriod)},
     hum \in {Data(60, 0)},
     l1 \in {NoStr, Data("on", EvalTime - 2 * TickPeriod),
             Data("off", EvalTime - TickPeriod)}}

InitTune ==
  /\ now = EvalTime
  /\ room = <<"f1">>
  /\ status \in TuneCaches
  /\ fansTrailing \in {[f \in FanSet |-> f = "f1" /\ b] : b \in BOOLEAN}
  /\ fanDriver = [f \in FanSet |-> "none"]
  /\ evals = <<>>
  /\ broker = <<>>
  /\ delays = [fresh |-> 0, old |-> 0]
  /\ script = NoScript
  /\ out = NoOut
  /\ RouterIdle

\* handleMqttMessage for room/<room>/fan/f1/<tunable>
Tune ==
  /\ \E a \in NumAttrs : \E v \in TuneValues(a) :
       HandleMqttMessage("fan", "f1", a, Data(v, 0))
  /\ UNCHANGED <<now, room, fansTrailing, fanDriver, evals, broker, script>>

NextTune ==
  \/ Tune
  \/ DelayDone
  \/ PublishSettles
  \/ Deliver

SpecTune == InitTune /\ [][NextTune]_vars

\* ------------------------------------------------ the node left to itself
\* A fan message has just been merged and its delayed call is due; from then
\* on nothing arrives but the node's own speed publishes, each of which the
\* handler merges and answers with another delayed call.  Humidity, lights,
\* control and tunables stay as they are.
LoopCaches ==
  {StatusOf([control |-> Data("auto", 0), speed |-> sp, minRunTime |-> rt],
            [control |-> c2], hum, l1, NoStr) :
     sp \in {NoStr, Data("min", EvalTime - TickPeriod),
             Data("max", EvalTime - TickPeriod)},
     rt \in {NoNum, Data(0, 0)},
     c2 \in {NoStr, Data("auto", 0)},
     hum \in {NoNum} \cup {Data(h, 0) : h \in {0, 47, 55, 65, 75}},
     l1 \in {NoStr, Data("on", EvalTime - 2 * TickPeriod),
             Data("off", EvalTime - 2 * TickPeriod)}}

InitLoop ==
  /\ now = EvalTime
  /\ status \in LoopCaches
  /\ room \in {<<"f1">>, <<"f1", "f2">>, <<"f2", "f1">>}
  /\ fansTrailing \in [FanSet -> BOOLEAN]
  /\ fanDriver = [f \in FanSet |-> "none"]
  /\ evals = <<>>
  /\ broker = <<>>
  /\ delays = [fresh |-> 1, old |-> 0]
  /\ script = NoScript
  /\ out = NoOut
  /\ RouterIdle

NextLoop ==
  \/ DelayDone
  \/ PublishSettles
  \/ Deliver

SpecLoop == InitLoop /\ [][NextLoop]_vars

\* ------------------------------------------------ readings that rise and fall
\* Fan f1 in auto control from the start.  The humidity sensor reports; the
\* interval, the delayed calls and the publishes go on as in Spec, and the
\* published speeds come back whenever the transport delivers them.
RaceReadings == {40, 75}

InitRace ==
  /\ now = TickPeriod
  /\ room = <<"f1">>
  /\ status \in {StatusOf([control |-> Data("auto", 0), minRunTime |-> rt],
                          << >>, NoNum, NoStr, NoStr) : rt \in {NoNum, Data(0, 0)}}
  /\ fansTrailing = [f \in FanSet |-> FALSE]
  /\ fanDriver = [f \in FanSet |-> "none"]
  /\ evals = <<>>
  /\ broker = <<>>
  /\ delays = [fresh |-> 0, old |-> 0]
  /\ script = NoScript
  /\ out = NoOut
  /\ RouterIdle

\* handleMqttMessage for room/<room>/humidity/<mainHumidity>/status
HumidityReport ==
  /\ \E h \in RaceReadings :
       HandleMqttMessage("humidity", MainHumidity, "status", Data(h, 0))
  /\ UNCHANGED <<now, room, fansTrailing, fanDriver, evals, broker, script>>

NextRace ==
  \/ HumidityReport
  \/ Tick
  \/ DelayDone
  \/ PublishSettles
  \/ Deliver

SpecRace == InitRace /\ [][NextRace]_vars

\* ========================================================== message router
\* handleMqttMessage of src/room-control.js on arbitrary topics and payloads,
\* with the whole object `status` as lodash sees it.
\* number of messages a behaviour of the router may handle
MaxMsgs == 2

\* JavaScript values: undefined, a primitive (named by its JSON text; a
\* timestamp by its number), or an object with its own properties
Undefined == [t |-> "undefined"]
Prim(v) == [t |-> "prim", v |-> v]
Obj(kids) == [t |-> "object", kids |-> kids]
EmptyObj == Obj(<< >>)
Falsy == {"false", "0", "", "null"}
Truthy(v) == v.t = "object" \/ (v.t = "prim" /\ v.v \notin Falsy)
Has(o, key) == o.t = "object" /\ key \in DOMAIN o.kids

\* lodash baseGet(object, path): undefined as soon as a segment is missing
RECURSIVE BaseGet(_, _)
BaseGet(o, path) ==
  IF path = <<>> THEN o
  ELSE IF Has(o, Head(path)) THEN BaseGet(o.kids[Head(path)], Tail(path))
  ELSE Undefined

\* _.get(object, path, default)
LoGet(o, path, default) ==
  LET r == BaseGet(o, path) IN IF r = Undefined THEN default ELSE r

\* mutant: every intermediate object on the path is created afresh
RECURSIVE BaseSetFresh(_, _, _)
BaseSetFresh(o, path, value) ==
  LET key == Head(path)
      new == IF Len(path) = 1 THEN value
             ELSE BaseSetFresh(EmptyObj, Tail(path), value)
  IN Obj([k \in DOMAIN o.kids \cup {key} |-> IF k = key THEN new ELSE o.kids[k]])

\* lodash baseSet(object, path, value) on an object and a non-empty path: an
\* intermediate value that is not an object is replaced by {}
RECURSIVE BaseSet(_, _, _)
BaseSet(o, path, value) ==
  LET key == Head(path)
      old == IF Has(o, key) THEN o.kids[key] ELSE Undefined
      new == IF Len(path) = 1 THEN value
             ELSE BaseSet(IF old.t = "object" THEN old ELSE EmptyObj,
                          Tail(path), value)
  IN Obj([k \in DOMAIN o.kids \cup {key} |-> IF k = key THEN new ELSE o.kids[k]])

\* _.set(object, path, value)
LoSet(o, path, value) ==
  IF o.t # "object" \/ path = <<>> THEN o ELSE BaseSet(o, path, value)

\* getStatus: () => status[roomId] || {}
GetStatus(c, roomId) ==
  LET r == BaseGet(c, <<roomId>>) IN IF Truthy(r) THEN r ELSE EmptyObj

\* A topic is a sequence of tokens: "/" or a run of other characters.
\* topic.split('/'): the runs between the slashes, '' where there is none
RECURSIVE SplitFrom(_, _, _)
SplitFrom(topic, i, cur) ==
  IF i > Len(topic) THEN <<cur>>
  ELSE IF topic[i] = "/" THEN <<cur>> \o SplitFrom(topic, i + 1, "")
  ELSE SplitFrom(topic, i + 1, topic[i])
Split(topic) == SplitFrom(topic, 1, "")

\* const [area, areaId, element, elementId, subArea] = ...: a missing element
\* is undefined, which the handler treats as it treats '' ("" here)
Seg(parts, i) == IF i <= Len(parts) THEN parts[i] ELSE ""

\* [areaId, element, elementId, subArea].filter(Boolean)
RECURSIVE FilterBoolean(_)
FilterBoolean(q) ==
  IF q = <<>> THEN <<>>
  ELSE IF Head(q) = "" THEN FilterBoolean(Tail(q))
  ELSE <<Head(q)>> \o FilterBoolean(Tail(q))
FinalPath(topic) ==
  LET parts == Split(topic)
  IN FilterBoolean(<<Seg(parts, 2), Seg(parts, 3), Seg(parts, 4), Seg(parts, 5)>>)

\* the rooms that have a RoomControl (roomControls), with their drivers
RoomIds == {"r1"}
Shutters(roomId) == IF roomId = "r1" THEN {"s1"} ELSE {}
Buttons(roomId) == IF roomId = "r1" THEN {"b1"} ELSE {}

\* mutant: every sub-action of a shutter is taken for a command
IsShutterActionAny(subArea) == TRUE

\* ['up', 'down', 'stop', 'toggle', 'max'].includes(subArea)
IsShutterAction(subArea) == subArea \in {"up", "down", "stop", "toggle", "max"}

DriverCall(driver, id, method, args) ==
  [driver |-> driver, id |-> id, method |-> method, args |-> args]

\* RoomControl.shutter(action, id, value): the driver calls it makes
Shutter(roomId, action, id, value) ==
  IF id \in Shutters(roomId)
  THEN IF action = "max" THEN <<DriverCall("shutter", id, "setMax", <<value>>)>>
       ELSE <<DriverCall("shutter", id, action, <<>>)>>
  ELSE <<>>

\* RoomControl.button(action, id, value): the driver calls it makes
Button(roomId, action, id, value) ==
  IF action = "active" /\ id \in Buttons(roomId)
  THEN IF Truthy(value) THEN <<DriverCall("button", id, "start", <<>>)>>
       ELSE <<DriverCall("button", id, "stop", <<>>)>>
  ELSE <<>>

\* what one call of the handler did
Step(kind, topic, data, calls, warned, sleeps, evaluated, unhandled) ==
  [step |-> kind, topic |-> topic, data |-> data, calls |-> calls,
   warned |-> warned, sleeps |-> sleeps, evaluated |-> evaluated,
   unhandled |-> unhandled]

\* handleMqttMessage(topic, data) up to its end or to its await delay(1000);
\* throws: whether a driver method that is called throws.  data.value of an
\* undefined payload is a TypeError; every exception lands in the catch.
HandleTopic(topic, data, throws) ==
  LET parts == Split(topic)
      area == Seg(parts, 1)
      areaId == Seg(parts, 2)
      element == Seg(parts, 3)
      elementId == Seg(parts, 4)
      subArea == Seg(parts, 5)
      toDriver == /\ area = "room"
                  /\ \/ element = "shutter" /\ IsShutterAction(subArea)
                     \/ element = "button" /\ subArea = "active"
                  /\ areaId \in RoomIds
      typeError == toDriver /\ data = Undefined
      calls == IF ~toDriver \/ typeError THEN <<>>
               ELSE IF element = "shutter"
               THEN Shutter(areaId, subArea, elementId, BaseGet(data, <<"value">>))
               ELSE Button(areaId, subArea, elementId, BaseGet(data, <<"value">>))
      sleeps == /\ area = "room"
                /\ ~(element = "shutter" /\ IsShutterAction(subArea))
                /\ ~(element = "button" /\ subArea = "active")
                /\ element = "fan"
  IN /\ cache' = IF area = "room" THEN LoSet(cache, FinalPath(topic), data) ELSE cache
     /\ throws => calls # <<>>
     /\ routed' = Append(routed, Step("message", topic, data, calls,
                                      typeError \/ throws, sleeps, FALSE, FALSE))
     /\ sleeping' = IF sleeps THEN Append(sleeping, topic) ELSE sleeping

\* how a call of updateFans ends: it runs to its end, or its promise rejects
\* (a publish rejected or a fan driver threw); nobody holds that promise
UpdateFansOutcomes == {"completes", "rejects"}

\* handleMqttMessage after await delay(1000):
\* roomControls[areaId][element](elementId, data) with element 'fan'
AfterDelay(k) ==
  LET topic == sleeping[k]
      areaId == Seg(Split(topic), 2)
  IN /\ sleeping' = RemoveAt(sleeping, k)
     /\ IF areaId \in RoomIds
        THEN \E outcome \in UpdateFansOutcomes :
               routed' = Append(routed, Step("afterDelay", topic, Undefined, <<>>,
                                             FALSE, FALSE, TRUE, outcome = "rejects"))
        ELSE routed' = Append(routed, Step("afterDelay", topic, Undefined, <<>>,
                                           TRUE, FALSE, FALSE, FALSE))
     /\ UNCHANGED <<cache, boot>>

\* topics.<name>(room, id): the topic strings the publishers build
RECURSIVE Join(_)
Join(segs) ==
  IF Len(segs) <= 1 THEN segs ELSE <<Head(segs), "/">> \o Join(Tail(segs))

\* payloads: {value, since}, an object without value, or none at all
Payload(v, s) == Obj([value |-> Prim(v), since |-> Prim(s)])
NoValue == Obj([since |-> Prim(1)])
StatusPayloads == {Payload("on", 1), Payload("on", 2), Payload("off", 2)}
CommandPayloads == {Undefined, NoValue, Payload("true", 1)}

StatusTopics ==
  {Join(<<"room", "r1", "light", "l1", "status">>),
   Join(<<"room", "r1", "shutter", "s1", "status">>),
   Join(<<"room", "r1", "button", "b1", "status">>)}
CommandTopics ==
  {Join(<<"room", "r1", "shutter", "s1", "up">>),
   Join(<<"room", "r1", "shutter", "s1", "max">>),
   Join(<<"room", "r1", "shutter", "s9", "up">>),
   Join(<<"room", "r2", "shutter", "s1", "up">>),
   Join(<<"room", "r1", "button", "b1", "active">>)}
FanTopics ==
  {Join(<<"room", "r1", "fan", "f1", "control">>),
   Join(<<"room", "r1", "fan", "f1", "speed">>),
   Join(<<"room", "r2", "fan", "f1", "control">>)}
OtherTopics ==
  {Join(<<"room", "r1", "oven", "o1", "status">>),
   Join(<<"room", "r1", "fan", "f1", "bogus">>),
   Join(<<"room", "r1", "light", "", "status">>),
   Join(<<"room", "r1">>),
   Join(<<"room">>)}

Messages ==
  (StatusTopics \X StatusPayloads) \cup (CommandTopics \X CommandPayloads)
  \cup (FanTopics \X {Payload("on", 1)})
  \cup (OtherTopics \X {Payload("on", 1)})

Handled == Cardinality({i \in 1..Len(routed) : routed[i].step = "message"})

\* the transport calls the handler with a message
Message ==
  /\ Handled < MaxMsgs
  /\ \E m \in Messages, throws \in BOOLEAN : HandleTopic(m[1], m[2], throws)
  /\ UNCHANGED fanVars
  /\ UNCHANGED boot

\* a delay(1000) expires
Awake ==
  /\ \E k \in 1..Len(sleeping) : AfterDelay(k)
  /\ UNCHANGED fanVars

InitRouter ==
  /\ now = TickPeriod
  /\ room = <<"f1">>
  /\ status = EmptyStatus
  /\ fansTrailing = [f \in FanSet |-> FALSE]
  /\ fanDriver = [f \in FanSet |-> "none"]
  /\ evals = <<>>
  /\ broker = <<>>
  /\ delays = [fresh |-> 0, old |-> 0]
  /\ script = NoScript
  /\ out = NoOut
  /\ RouterIdle

NextRouter == Message \/ Awake

SpecRouter == InitRouter /\ [][NextRouter]_vars

\* C11 as claimed: when the publish of a fan's new speed rejects, the fan's
\* driver is still called with the new speed and the fans after it in the room
\* are still evaluated.
C11_RejectStillCommands ==
  [][\A k \in 1..Len(evals) :
       (evals[k].fails /\ Len(evals') < Len(evals) /\ evals' = RemoveAt(evals, k)) =>
         /\ fanDriver'[room[evals[k].idx]] = evals[k].newSpeed
         /\ \A j \in (evals[k].idx + 1)..Len(room) :
              \E i \in 1..Len(out') : out'[i].fan = room[j]]_vars

\* the publish of the first fan of a two-fan room is about to reject; the
\* driver has not been called and the second fan, in auto control, waits
C11_Witness ==
  /\ Len(room) = 2
  /\ \E k \in 1..Len(evals) :
       /\ evals[k].fails
       /\ evals[k].idx = 1
       /\ evals[k].newSpeed = "max"
  /\ fanDriver["f1"] = "none"
  /\ CachedControl("f2") = "auto"

\* ================================================================= startup
\* The async main function from mqttClient.init on, for one configured room
\* with one device of every kind.  Both entry files are modelled: they differ
\* in where the RoomControl objects are constructed.
EntryFiles == {"room-control.js", "part_000"}
TaskTypes == {"shutters", "buttons", "windows", "dht22", "lights", "fans"}

\* the topics subscribed for one task type, in the order of the subscribe calls
TopicsOf(task) ==
  IF task = "shutters"
  THEN <<"shutterUp", "shutterDown", "shutterStop", "shutterStatus",
         "shutterToggle", "shutterMax">>
  ELSE IF task = "buttons" THEN <<"buttonActive", "buttonStatus">>
  ELSE IF task = "windows" THEN <<"windowStatus">>
  ELSE IF task = "dht22" THEN <<"temperatureStatus", "humidityStatus">>
  ELSE IF task = "lights" THEN <<"lightStatus">>
  ELSE <<"fanControl", "fanSpeed", "fanTrailingTime", "fanMinRunTime",
         "fanLightTimeout", "fanMinHumidityThreshold", "fanMaxHumidityThreshold">>

\* the task types a file subscribes for, in the order of its if statements
TaskOrder(file) ==
  IF file = "room-control.js"
  THEN <<"shutters", "buttons", "windows", "dht22", "lights", "fans">>
  ELSE <<"shutters", "buttons", "windows", "dht22", "lights">>

\* the subscribe calls of the loop over the rooms, for the configured tasks
RECURSIVE SubscribesFrom(_, _, _)
SubscribesFrom(order, tasks, i) ==
  IF i > Len(order) THEN <<>>
  ELSE (IF order[i] \in tasks THEN TopicsOf(order[i]) ELSE <<>>)
       \o SubscribesFrom(order, tasks, i + 1)
Subscribes(file, tasks) == SubscribesFrom(TaskOrder(file), tasks, 1)

Call(op, topic) == [op |-> op, topic |-> topic]

\* the statements of main in program order
Plan(file, tasks) ==
  LET subs == Subscribes(file, tasks)
      subscribeCalls == [k \in 1..Len(subs) |-> Call("subscribe", subs[k])]
      announce == <<Call("publish", "automationInit")>>
  IN IF file = "room-control.js"
     THEN <<Call("init", "")>> \o <<Call("construct", "")>> \o announce \o subscribeCalls
     ELSE <<Call("init", "")>> \o announce \o subscribeCalls \o <<Call("construct", "")>>

AtStatement(op) ==
  /\ boot.pc <= Len(Plan(boot.file, boot.tasks))
  /\ Plan(boot.file, boot.tasks)[boot.pc].op = op

\* an awaited transport call resolves and main goes on, or it rejects and the
\* async main function ends there
Transport(ok) ==
  /\ boot' = IF ok
             THEN [boot EXCEPT !.pc = @ + 1,
                               !.calls = Append(@, Plan(boot.file, boot.tasks)[boot.pc])]
             ELSE [boot EXCEPT !.pc = Len(Plan(boot.file, boot.tasks)) + 1,
                               !.failed = TRUE]
  /\ UNCHANGED fanVars
  /\ UNCHANGED <<cache, routed, sleeping>>

\* await mqttClient.init(handleMqttMessage)
MqttInit == AtStatement("init") /\ \E ok \in BOOLEAN : Transport(ok)

\* roomControls[room.id] = new RoomControl({...}) for the configured rooms
Construct ==
  /\ AtStatement("construct")
  /\ boot' = [boot EXCEPT !.pc = @ + 1, !.constructed = TRUE]
  /\ UNCHANGED fanVars
  /\ UNCHANGED <<cache, routed, sleeping>>

\* await mqttClient.publish(automationInit(raspi), {value: 'done'}, {retain: true})
PublishInit == AtStatement("publish") /\ \E ok \in BOOLEAN : Transport(ok)

\* await mqttClient.subscribe(...)
Subscribe == AtStatement("subscribe") /\ \E ok \in BOOLEAN : Transport(ok)

InitBoot ==
  /\ now = TickPeriod
  /\ room = <<"f1">>
  /\ status = EmptyStatus
  /\ fansTrailing = [f \in FanSet |-> FALSE]
  /\ fanDriver = [f \in FanSet |-> "none"]
  /\ evals = <<>>
  /\ broker = <<>>
  /\ delays = [fresh |-> 0, old |-> 0]
  /\ script = NoScript
  /\ out = NoOut
  /\ cache = EmptyObj
  /\ routed = <<>>
  /\ sleeping = <<>>
  /\ boot \in {[file |-> f, tasks |-> t, pc |-> 1, calls |-> <<>>,
                constructed |-> FALSE, failed |-> FALSE] :
                 f \in EntryFiles, t \in SUBSET TaskTypes}

NextBoot == MqttInit \/ Construct \/ PublishInit \/ Subscribe

SpecBoot == InitBoot /\ [][NextBoot]_vars

\* ------------------------------------------------------ claims on the router
IsPrefix(p, q) == Len(p) <= Len(q) /\ SubSeq(q, 1, Len(p)) = p
Related(p, q) == IsPrefix(p, q) \/ IsPrefix(q, p)
\* the path a handled message was merged at (<<>>: it was not merged)
MergePath(e) ==
  IF e.step = "message" /\ Seg(Split(e.topic), 1) = "room"
  THEN FinalPath(e.topic) ELSE <<>>
\* the paths read back: every path a message of Messages is merged at, and
\* two that no message reaches
ReadPaths ==
  {<<"r1">>,
   <<"r1", "light", "status">>,
   <<"r1", "light", "l1", "status">>,
   <<"r1", "shutter", "s1", "status">>,
   <<"r1", "shutter", "s1", "up">>,
   <<"r1", "shutter", "s1", "max">>,
   <<"r1", "shutter", "s9", "up">>,
   <<"r2", "shutter", "s1", "up">>,
   <<"r1", "button", "b1", "status">>,
   <<"r1", "button", "b1", "active">>,
   <<"r1", "fan", "f1", "control">>,
   <<"r1", "fan", "f1", "speed">>,
   <<"r1", "fan", "f1", "bogus">>,
   <<"r2", "fan", "f1", "control">>,
   <<"r1", "oven", "o1", "status">>,
   <<"r3", "fan", "f1", "speed">>,
   <<"r1", "fan", "f2", "speed">>}
\* the step just taken handled a message
NewMessage == Len(routed') = Len(routed) + 1 /\ routed'[Len(routed')].step = "message"

\* the addresses the specification recognizes
Kinds == {"shutter", "button", "window", "temperature", "humidity", "light", "fan"}
SubActions(kind) ==
  IF kind = "fan" THEN FanAttrs
  ELSE IF kind = "shutter" THEN {"up", "down", "stop", "toggle", "max", "status"}
  ELSE IF kind = "button" THEN {"active", "status", "close", "open"}
  ELSE {"status"}
Recognized(topic) ==
  LET parts == Split(topic)
  IN /\ Len(parts) \in {4, 5}
     /\ \A i \in 1..Len(parts) : parts[i] # ""
     /\ parts[1] = "room"
     /\ parts[3] \in Kinds
     /\ Len(parts) = 5 => parts[5] \in SubActions(parts[3])
IsStatusReport(topic) ==
  LET parts == Split(topic)
  IN /\ Len(parts) = 5
     /\ \A i \in 1..Len(parts) : parts[i] # ""
     /\ parts[1] = "room"
     /\ parts[3] \in Kinds \ {"fan"}
     /\ parts[5] = "status"

\* C12 as claimed: handling a topic that is not a recognized address changes
\* no cache entry, calls no driver method and schedules no fan evaluation.
C12_UnrecognizedDropped ==
  [][(NewMessage /\ ~Recognized(routed'[Len(routed')].topic)) =>
       /\ cache' = cache
       /\ routed'[Len(routed')].calls = <<>>
       /\ ~routed'[Len(routed')].sleeps]_vars

\* the light status of room r1 was merged, then the topic room/r1 was handled:
\* its payload is the room's whole status now and the light entry is gone
C12_Witness ==
  /\ Len(routed) = 2
  /\ routed[1].topic = Join(<<"room", "r1", "light", "l1", "status">>)
  /\ routed[2].topic = Join(<<"room", "r1">>)
  /\ BaseGet(cache, <<"r1">>) = routed[2].data
  /\ BaseGet(cache, <<"r1", "light", "l1", "status">>) = Undefined

\* C13 as claimed: whatever fails while a message is dispatched, the fan
\* evaluation it triggers included, is caught by the handler; no rejection is
\* left unhandled.
C13_NothingEscapes ==
  \A i \in 1..Len(routed) : ~routed[i].unhandled

\* the evaluation started for a fan message of room r1 ended in a rejection
\* that the handler did not catch and did not log
C13_Witness ==
  \E i \in 1..Len(routed) :
    /\ routed[i].step = "afterDelay"
    /\ routed[i].topic = Join(<<"room", "r1", "fan", "f1", "control">>)
    /\ routed[i].evaluated
    /\ routed[i].unhandled
    /\ ~routed[i].warned

\* C14: a payload merged at a path is what reading that path returns, through
\* _.get on the whole cache and through getStatus, as long as no later merge
\* was at that path, above it or below it; a path at, above and below which
\* nothing was merged reads as the default.
\* (at[i]: the path step i merged at, computed once for the state)
C14_CacheRoundTrip ==
  \A at \in {[i \in 1..Len(routed) |-> MergePath(routed[i])]} :
  LET merged == {i \in 1..Len(routed) : at[i] # <<>>}
  IN /\ \A i \in merged :
          LET p == at[i]
              data == routed[i].data
          IN (\A j \in merged : j > i => ~Related(at[j], p)) =>
               /\ BaseGet(cache, p) = data
               /\ LoGet(GetStatus(cache, Head(p)), Tail(p) \o <<"value">>, Prim("default"))
                    = IF Has(data, "value") THEN data.kids.value ELSE Prim("default")
     /\ \A q \in ReadPaths :
          (\A j \in merged : ~Related(at[j], q)) =>
            /\ BaseGet(cache, q) = Undefined
            /\ LoGet(GetStatus(cache, Head(q)), Tail(q) \o <<"value">>, Prim("default"))
                 = Prim("default")

\* two payloads merged under the same shutter, at sibling paths, both read back
C14_Witness ==
  /\ Len(routed) = 2
  /\ routed[1].topic = Join(<<"room", "r1", "shutter", "s1", "status">>)
  /\ routed[2].topic = Join(<<"room", "r1", "shutter", "s1", "up">>)
  /\ BaseGet(cache, <<"r1", "shutter", "s1", "status">>) = Payload("on", 1)
  /\ BaseGet(cache, <<"r1", "shutter", "s1", "up">>) = NoValue
  /\ BaseGet(cache, <<"r1", "fan", "f2", "speed">>) = Undefined

\* C15 as claimed: the `since` of a cache entry never decreases and changes
\* only in a merge that changes the entry's value.
C15_SinceOnlyAdvances ==
  [][\A q \in ReadPaths :
       LET old == BaseGet(cache, q)
           new == BaseGet(cache', q)
       IN (Has(old, "value") /\ Has(old, "since")
           /\ Has(new, "value") /\ Has(new, "since")) =>
            /\ new.kids.since.v >= old.kids.since.v
            /\ new.kids.value = old.kids.value => new.kids.since = old.kids.since]_vars

\* the same light status arrived twice, the second payload with the earlier
\* `since`: the entry's value is the same and its `since` went back
C15_Witness ==
  /\ Len(routed) = 2
  /\ routed[1].topic = Join(<<"room", "r1", "light", "l1", "status">>)
  /\ routed[2].topic = routed[1].topic
  /\ routed[1].data = Payload("on", 2)
  /\ routed[2].data = Payload("on", 1)
  /\ BaseGet(cache, <<"r1", "light", "l1", "status", "since">>) = Prim(1)

\* C17: handling a status report stores the payload at the path derived from
\* the topic, changes nothing at any path beside it, calls no driver, suspends
\* in no delay and starts no fan evaluation.
C17_StatusReportOnlyMerges ==
  [][(NewMessage /\ IsStatusReport(routed'[Len(routed')].topic)) =>
       LET e == routed'[Len(routed')]
           p == FinalPath(e.topic)
       IN /\ p = Tail(Split(e.topic))
          /\ BaseGet(cache', p) = e.data
          /\ \A q \in ReadPaths : ~Related(q, p) => BaseGet(cache', q) = BaseGet(cache, q)
          /\ e.calls = <<>>
          /\ ~e.warned
          /\ ~e.sleeps /\ sleeping' = sleeping
          /\ UNCHANGED fanVars]_vars

\* the status report of shutter s1 was handled after a command for it
C17_Witness ==
  /\ Len(routed) = 2
  /\ routed[1].topic = Join(<<"room", "r1", "shutter", "s1", "up">>)
  /\ routed[1].calls # <<>>
  /\ routed[2].topic = Join(<<"room", "r1", "shutter", "s1", "status">>)
  /\ routed[2].calls = <<>>
  /\ BaseGet(cache, <<"r1", "shutter", "s1", "status">>) = Payload("off", 2)

\* C18 as claimed: a shutter command for a configured room calls one method of
\* the addressed shutter's driver, setMax with the payload value for 'max' and
\* the method named by the command otherwise, also without a payload; for an
\* unknown shutter id it calls nothing.
C18_ShutterCommandCallsDriver ==
  \A i \in 1..Len(routed) :
    LET e == routed[i]
        parts == Split(e.topic)
    IN (e.step = "message" /\ Len(parts) = 5 /\ parts[1] = "room"
        /\ parts[2] \in RoomIds /\ parts[3] = "shutter"
        /\ parts[5] \in {"up", "down", "stop", "toggle", "max"}
        /\ (parts[5] = "max" => e.data # Undefined)) =>
         e.calls = IF parts[4] \notin Shutters(parts[2]) THEN <<>>
                   ELSE IF parts[5] = "max"
                   THEN <<DriverCall("shutter", parts[4], "setMax",
                                     <<BaseGet(e.data, <<"value">>)>>)>>
                   ELSE <<DriverCall("shutter", parts[4], parts[5], <<>>)>>

\* the command 'up' for shutter s1 arrived without a payload: no driver method
\* was called and the handler logged the TypeError
C18_Witness ==
  \E i \in 1..Len(routed) :
    /\ routed[i].topic = Join(<<"room", "r1", "shutter", "s1", "up">>)
    /\ routed[i].data = Undefined
    /\ routed[i].calls = <<>>
    /\ routed[i].warned

\* C16 as claimed: automationInit is published only after every subscription
\* for the configured tasks has been made, and no subscribe call follows it.
C16_AnnouncedAfterSubscriptions ==
  \A i \in 1..Len(boot.calls) :
    boot.calls[i].op = "publish" =>
      /\ \A j \in 1..Len(boot.calls) : boot.calls[j].op = "subscribe" => j < i
      /\ \A k \in 1..Len(Subscribes(boot.file, boot.tasks)) :
           \E j \in 1..(i - 1) :
             boot.calls[j] = Call("subscribe", Subscribes(boot.file, boot.tasks)[k])

\* room-control.js with the fans task has run to its end without a failure:
\* automationInit was the first message on the transport, before the seven
\* fan subscriptions
C16_Witness ==
  /\ boot.file = "room-control.js"
  /\ boot.tasks = {"fans"}
  /\ ~boot.failed
  /\ boot.constructed
  /\ boot.pc > Len(Plan(boot.file, boot.tasks))
  /\ boot.calls[2] = Call("publish", "automationInit")
  /\ boot.calls[Len(boot.calls)] = Call("subscribe", "fanMaxHumidityThreshold")

\* the step just taken began a call of updateFans
Started == out # <<>> /\ out[1].branch # "resume"
Pending == delays.fresh + delays.old

\* C19 as claimed: while an evaluation of the room is suspended in a publish,
\* no other evaluation starts and no message is merged into the cache.
C19_EvaluationsSerialized ==
  [][evals # <<>> =>
       /\ status' = status
       /\ ~(out' # <<>> /\ out'[1].branch # "resume")]_vars

\* an evaluation that decided 'max' in auto control is suspended in its
\* publish; meanwhile control 'manual' was merged and a second evaluation has
\* run in manual control
C19_Witness ==
  /\ evals # <<>>
  /\ evals[1].newSpeed = "max"
  /\ Started
  /\ out[1].branch = "manual"
  /\ CachedControl(out[1].fan) = "manual"

\* C20 as claimed: a command for fan f1 that was merged and waits in its delay
\* is eventually followed by an evaluation of f1 that reads the cache the
\* command was merged into.
C20_CommandLeadsToEvaluation ==
  (Pending > 0) ~>
    (\E i \in FreshIn(out) :
       /\ out[i].fan = "f1"
       /\ out[i].speed = CachedSpeed("f1")
       /\ (out[i].branch = "manual") = (CachedControl("f1") = "manual"))

\* control 'auto' for f1, the second fan of the room, is in the cache, the
\* delayed call it started has run and has ended, and no evaluation has
\* commanded f1
C20_Witness ==
  /\ room = <<"f2", "f1">>
  /\ CachedControl("f1") = "auto"
  /\ Pending = 0
  /\ evals = <<>>
  /\ fanDriver["f1"] = "none"

\* C21: an evaluation in auto control decides with each tunable resolved as
\* the cached value if the cache holds one and the configured value otherwise:
\* minRunTime in the keep-running guard, lightTimeout and trailingTime in the
\* trailing flag, the two thresholds in the humidity bands; so a tunable
\* message merged before an evaluation is what that evaluation uses.
C21_TunablesResolvedPerEvaluation ==
  \A i \in FreshIn(out) :
    LET f == out[i].fan
        keep == /\ CachedSpeed(f) # "off"
                /\ now - CachedSpeedSince(f) < Tunable(f, "minRunTime") * 1000
        set == /\ OnStamps(f) # {}
               /\ now - SetMin(OnStamps(f)) > Tunable(f, "lightTimeout") * 1000
        clear == /\ \A l \in TriggerSet(f) : ~LightOn(l)
                 /\ OffStamps(f) # {}
                 /\ now - SetMax(OffStamps(f)) > Tunable(f, "trailingTime") * 1000
        flag == (out[i].was \/ set) /\ ~clear
        band == IF Reading.set /\ Reading.value # 0
                THEN BandSpeed(CachedSpeed(f), Reading.value,
                               Tunable(f, "minHumidityThreshold"),
                               Tunable(f, "maxHumidityThreshold"))
                ELSE "off"
    IN CachedControl(f) # "manual" =>
         /\ (out[i].branch = "keep") = keep
         /\ ~keep => /\ out[i].trailing = flag
                     /\ out[i].newSpeed = IF flag THEN "min" ELSE band

\* the reading is 60 and an earlier evaluation commanded 'min' under the
\* configured maximum threshold 70; a message set the threshold to 55 and the
\* evaluation after it decides 'max'
C21_Witness ==
  \E i \in FreshIn(out) :
    /\ out[i].fan = "f1"
    /\ fanDriver["f1"] = "min"
    /\ Reading.value = 60
    /\ status.fan["f1"].maxHumidityThreshold = Data(55, 0)
    /\ ~fansTrailing["f1"]
    /\ out[i].newSpeed = "max"

\* nothing suspended, nothing with the transport, no delayed call due
Quiet == evals = <<>> /\ broker = <<>> /\ Pending = 0

\* an evaluation of fan f now would publish
Unsettled(f) == EvalFan(status, fansTrailing[f], f, now).publish
\* the sum of the numbers of a sequence
RECURSIVE SumOf(_)
SumOf(q) == IF q = <<>> THEN 0 ELSE Head(q) + SumOf(Tail(q))
\* what is still to come: a fan that would publish outweighs everything else;
\* a delayed call outweighs the publishes its evaluation can make, a suspended
\* evaluation those of the rest of its loop, and a speed on its way back to a
\* fan that no longer publishes the delayed call it will start
LoopRank ==
  LET n == Len(room)
      ofEval == [k \in 1..Len(evals) |-> 2 * (n - evals[k].idx) + 1]
      ofSpeed == [k \in 1..Len(broker) |->
                    IF Unsettled(broker[k].fan) THEN 1 ELSE 2 * n + 2]
  IN 1000 * Cardinality({i \in 1..n : Unsettled(room[i])})
     + (2 * n + 1) * Pending
     + SumOf(ofEval)
     + SumOf(ofSpeed)

\* C22: with the inputs held fixed every step of the node lowers a measure
\* that is a natural number, so only finitely many steps, and finitely many
\* speed publishes, follow; and an evaluation that reads a speed of its own
\* that has just come back decides that same speed and publishes nothing.
C22_FeedbackQuiesces ==
  [][/\ LoopRank' < LoopRank
     /\ LoopRank' >= 0
     /\ \A i \in FreshIn(out') :
          LET sp == status'.fan[out'[i].fan].speed
          IN (sp.set /\ sp.since = now') =>
               (out'[i].newSpeed = sp.value /\ ~out'[i].publish)]_vars

\* 'max' was published, came back into the cache and was evaluated past the
\* guard (minRunTime 0) without another publish; the node is at rest
C22_Witness ==
  /\ Quiet
  /\ Started
  /\ out[1].fan = "f1"
  /\ out[1].branch = "auto"
  /\ status.fan["f1"].speed = Data("max", now)
  /\ Tunable("f1", "minRunTime") = 0
  /\ fanDriver["f1"] = "max"
  /\ ~out[1].publish

\* the speeds published for fan f that the transport has not yet delivered
\* back, oldest first; the last of them is the speed published most recently
Undelivered(f) ==
  LET Mine(m) == m.fan = f
  IN SelectSeq(broker, Mine)

\* C23 as claimed, for a fan with a published speed still on its way back:
\* in auto control, with no evaluation of the fan suspended in its publish,
\* the speed last commanded to the driver is the speed published last.
C23_CommandedIsPublished ==
  \A i \in 1..Len(room) :
    LET f == room[i]
        mine == Undelivered(f)
    IN (/\ CachedControl(f) = "auto"
        /\ \A k \in 1..Len(evals) : room[evals[k].idx] # f
        /\ mine # <<>>) =>
         fanDriver[f] = mine[Len(mine)].value

\* 'max' was published and commanded at reading 75 and has not come back; the
\* reading fell to 40 and the next evaluation, reading the cached 'off',
\* commanded 'off' and published nothing
C23_Witness ==
  /\ CachedControl("f1") = "auto"
  /\ evals = <<>>
  /\ broker = <<[fan |-> "f1", value |-> "max"]>>
  /\ Reading.value = 40
  /\ Started
  /\ out[1].branch = "auto"
  /\ ~out[1].publish
  /\ fanDriver["f1"] = "off"

====
